---------------------------- MODULE Spec2Model ----------------------------
(***************************************************************************)
(* Model of binary_playground.c: the three summation functions             *)
(* (sum_scalars, sum_vectors, sum_structs) and the command-line program    *)
(* `main` that parses options, optionally dlopen()s a library providing    *)
(* the same three symbols, dispatches on --mode and prints the result.     *)
(*                                                                         *)
(* Three specifications share the module:                                  *)
(*   Spec        one invocation of main, statement by statement;           *)
(*   VecSpec     one call of sum_vectors on a flat memory, with pointer    *)
(*               arguments that may alias;                                 *)
(*   StructSpec  one call of sum_structs on two records.                   *)
(*                                                                         *)
(* Floating point.  A value is an integer number of units of 2^-27, so     *)
(* that 0.1f, 0.2f and 0.3f (whose last bit weighs 2^-27, 2^-26, 2^-25)     *)
(* are exact.  A float is such a value with at most 24 significant bits;   *)
(* float addition is the exact sum rounded to 24 bits, ties to even.       *)
(* The model covers magnitudes below 16 (TLC's integers are 32 bits wide). *)
(* Each + is rounded to float on its own, as on a target that evaluates    *)
(* float expressions in float; in the example vectors the first of the two *)
(* additions is exact, so a wider evaluation gives the same results.       *)
(***************************************************************************)
EXTENDS Integers, Sequences, FiniteSets, TLC

VARIABLES
    \* ---- main
    pc,               \* position in main
    argv,             \* the options of the command line, in order
    optind,           \* index of the next option getopt_long returns
    mode, use_lib, a, b, c,
    loadable,         \* environment: which library files dlopen can open
    handle,           \* NULL or the library the handle refers to
    lib_sum_scalars, lib_sum_vectors, lib_sum_structs,
    exported,         \* environment: symbols the opened library turned out to export
    dlopenLog,        \* the library names passed to dlopen, in order
    held,             \* the handles dlopen returned that are not yet dlclose()d
    closes,           \* how often dlclose was called on each library's handle
    calls,            \* the arithmetic functions called: <<function, implementation>>
    stdout, stderr,   \* the lines written to each stream
    exitCode,         \* main's return value
    \* ---- sum_vectors
    vpc, mem, mem0, v1, v2, v3, len, i, writes,
    \* ---- sum_structs
    spc, s1, s2, s1in, s2in, out

mainVars == <<pc, argv, optind, mode, use_lib, a, b, c, loadable, handle,
              lib_sum_scalars, lib_sum_vectors, lib_sum_structs, exported,
              dlopenLog, held, closes, calls, stdout, stderr, exitCode>>
vecVars == <<vpc, mem, mem0, v1, v2, v3, len, i, writes>>
structVars == <<spc, s1, s2, s1in, s2in, out>>
vars == <<mainVars, vecVars, structVars>>

-----------------------------------------------------------------------------
(* Bounds of the model *)

\* Longest command line (number of options).
MaxArgs == 3
\* Number of float cells of the memory sum_vectors works on.
MemSize == 6
\* Longest vector passed to sum_vectors.
MaxLen == 2

-----------------------------------------------------------------------------
(* float, double and int *)

\* One unit is 2^-27: Unit is the value 1.0.
Unit == 2^27

\* Significand width of `float` (IEEE-754 binary32).
F32Prec == 24

RECURSIVE ScaleOf(_, _)
\* The weight of the last bit a float of magnitude n keeps.
ScaleOf(n, s) == IF n \div s < 2^F32Prec THEN s ELSE ScaleOf(n, 2 * s)

\* Round-to-nearest, ties-to-even, of q + r/d to an integer.
RoundHalfEven(q, r, d) ==
    IF 2 * r > d \/ (2 * r = d /\ q % 2 = 1) THEN q + 1 ELSE q

RoundMag(n) ==
    LET s == ScaleOf(n, 1)
    IN  RoundHalfEven(n \div s, n % s, s) * s

\* The float nearest to the exact value n.
RoundF32(n) == IF n < 0 THEN -RoundMag(-n) ELSE RoundMag(n)

\* The operator + on two floats.
AddF32(x, y) == RoundF32(x + y)

\* The operator + on two doubles: a double keeps 53 bits, every value of the
\* model has fewer than 32, so the exact sum is the double sum.
AddF64(x, y) == x + y

RECURSIVE BinExp(_, _, _)
\* The largest k with num * 2^k / den < 2^24.
BinExp(num, den, k) ==
    IF (num * 2^(k + 1)) \div den < 2^F32Prec THEN BinExp(num, den, k + 1) ELSE k

\* The float a decimal literal or string num/den (den 1 or 10) converts to.
ParseF32(num, den) ==
    IF num = 0 THEN 0
    ELSE LET k == BinExp(num, den, 0)
             x == num * 2^k
         IN  RoundHalfEven(x \div den, x % den, den) * 2^(27 - k)

\* The double a literal num/den converts to, for a literal that is a multiple
\* of 2^-27 (such a literal is a double exactly).
ParseF64(num, den) == (num * Unit) \div den

INT_MAX == 2147483647
INT_MIN == -INT_MAX - 1

\* x + y does not fit a 32-bit int.
AddOverflows(x, y) ==
    \/ x > 0 /\ y > INT_MAX - x
    \/ x < 0 /\ y < INT_MIN - x

\* x + y reduced modulo 2^32 to the range of int.
WrapAdd(x, y) ==
    IF x > 0 /\ y > INT_MAX - x THEN (x + INT_MIN) + (y + INT_MIN)
    ELSE IF x < 0 /\ y < INT_MIN - x THEN (x - INT_MIN) + (y - INT_MIN)
    ELSE x + y

-----------------------------------------------------------------------------
(* printf("%f") and printf("%d") *)

Digits == <<"0", "1", "2", "3", "4", "5", "6", "7", "8", "9">>

RECURSIVE NatToStr(_)
NatToStr(n) ==
    IF n < 10 THEN Digits[n + 1] ELSE NatToStr(n \div 10) \o Digits[(n % 10) + 1]

\* %d
FormatD(n) ==
    IF n = INT_MIN THEN "-2147483648"
    ELSE IF n < 0 THEN "-" \o NatToStr(-n) ELSE NatToStr(n)

RECURSIVE FracDigits(_, _, _)
\* d more decimal digits of r / Unit appended to acc: <<digits, remainder>>.
FracDigits(r, d, acc) ==
    IF d = 0 THEN <<acc, r>>
    ELSE FracDigits((r * 10) % Unit, d - 1, acc * 10 + (r * 10) \div Unit)

RECURSIVE Pad(_, _)
\* n in decimal, zero-padded on the left to w digits.
Pad(n, w) == IF w = 0 THEN "" ELSE Pad(n \div 10, w - 1) \o Digits[(n % 10) + 1]

\* FormatMag cutting the digits after the sixth instead of rounding.
FormatMagTruncated(n) ==
    LET f == FracDigits(n % Unit, 6, 0)
    IN  NatToStr(n \div Unit) \o "." \o Pad(f[1], 6)

FormatMag(n) ==
    LET f == FracDigits(n % Unit, 6, 0)
        micro == (n \div Unit) * 1000000 + RoundHalfEven(f[1], f[2], Unit)
    IN  NatToStr(micro \div 1000000) \o "." \o Pad(micro % 1000000, 6)

\* %f: six decimals, the exact value rounded to nearest, ties to even.
FormatF(n) == IF n < 0 THEN "-" \o FormatMag(-n) ELSE FormatMag(n)

-----------------------------------------------------------------------------
(* sum_scalars *)

sum_scalars(x, y, z) == AddF32(AddF32(x, y), z)

-----------------------------------------------------------------------------
(* sum_vectors: a vector is a base address into a memory of floats *)

Cells == 0 .. (MemSize - 1)

\* VecElem leaving v3 out.
VecElemTwo(m, p1, p2, p3, k) == AddF32(m[p1 + k], m[p2 + k])

\* The value the loop body stores for index k.
VecElem(m, p1, p2, p3, k) == AddF32(AddF32(m[p1 + k], m[p2 + k]), m[p3 + k])

\* VecDest storing through v2.
VecDestV2(p1, p2, p3, k) == p2 + k

\* The cell the loop body stores to for index k.
VecDest(p1, p2, p3, k) == p1 + k

\* One execution of the loop body: v1[k] = v1[k] + v2[k] + v3[k].
SumVectorsStep(m, p1, p2, p3, k) ==
    [m EXCEPT ![VecDest(p1, p2, p3, k)] = VecElem(m, p1, p2, p3, k)]

\* The loop condition.
LoopCond(k, n) == k < n

RECURSIVE SumVectorsFrom(_, _, _, _, _, _)
\* The loop run from index k to its end.
SumVectorsFrom(m, p1, p2, p3, k, n) ==
    IF LoopCond(k, n)
    THEN SumVectorsFrom(SumVectorsStep(m, p1, p2, p3, k), p1, p2, p3, k + 1, n)
    ELSE m

sum_vectors(m, p1, p2, p3, n) == SumVectorsFrom(m, p1, p2, p3, 0, n)

-----------------------------------------------------------------------------
(* sum_structs *)

\* out.x, when the addition does not trap (see StructAddXTrap).
sum_structs_x(r1, r2) == WrapAdd(r1.x, r2.x)
sum_structs_y(r1, r2) == AddF32(r1.y, r2.y)
sum_structs_z(r1, r2) == AddF64(r1.z, r2.z)

sum_structs(r1, r2) ==
    [x |-> sum_structs_x(r1, r2), y |-> sum_structs_y(r1, r2), z |-> sum_structs_z(r1, r2)]

\* The fields of `MyStruct out` before they are assigned.
Uninit == [x |-> "?", y |-> "?", z |-> "?"]

-----------------------------------------------------------------------------
(* Values the function specifications draw their inputs from *)

\* 1.0 and 24 * 2^-27 (1.0 + 24 * 2^-27 is a tie between two floats).
VecVals == {Unit, 24}

IntVals == {INT_MIN, -1, 0, 1, INT_MAX}
FloatVals == {Unit, 24, -(Unit \div 2)}
DoubleVals == {3 * Unit + Unit \div 4, 3 * (Unit \div 4)}
Structs == [x : IntVals, y : FloatVals, z : DoubleVals]

-----------------------------------------------------------------------------
(* The states of the parts a specification does not run *)

MainIdle ==
    /\ pc = "idle" /\ argv = <<>> /\ optind = 1
    /\ mode = "scalar" /\ use_lib = FALSE /\ a = 0 /\ b = 0 /\ c = 0
    /\ loadable = {} /\ handle = "NULL"
    /\ lib_sum_scalars = "NULL" /\ lib_sum_vectors = "NULL" /\ lib_sum_structs = "NULL"
    /\ exported = {} /\ dlopenLog = <<>> /\ held = {} /\ closes = <<>>
    /\ calls = <<>> /\ stdout = <<>> /\ stderr = <<>> /\ exitCode = -1

VecIdle ==
    /\ vpc = "idle" /\ mem = <<>> /\ mem0 = <<>>
    /\ v1 = 0 /\ v2 = 0 /\ v3 = 0 /\ len = 0 /\ i = 0 /\ writes = <<>>

StructIdle ==
    /\ spc = "idle" /\ s1 = Uninit /\ s2 = Uninit
    /\ s1in = Uninit /\ s2in = Uninit /\ out = Uninit

-----------------------------------------------------------------------------
(* VecSpec: one call sum_vectors(v1, v2, v3, len) *)

\* A call within the caller's contract: each vector has len cells in memory.
\* The three vectors may be the same buffer or overlap.
VecInit ==
    /\ mem \in [Cells -> VecVals]
    /\ mem0 = mem
    /\ len \in 0 .. MaxLen
    /\ v1 \in 0 .. (MemSize - len)
    /\ v2 \in 0 .. (MemSize - len)
    /\ v3 \in 0 .. (MemSize - len)
    /\ i = 0
    /\ writes = [k \in Cells |-> 0]
    /\ vpc = "loop"
    /\ MainIdle /\ StructIdle

\* for (...; i < len; ++i) { v1[i] = v1[i] + v2[i] + v3[i]; }
VecLoopBody ==
    /\ vpc = "loop"
    /\ LoopCond(i, len)
    /\ mem' = SumVectorsStep(mem, v1, v2, v3, i)
    /\ writes' = [writes EXCEPT ![VecDest(v1, v2, v3, i)] = @ + 1]
    /\ i' = i + 1
    /\ UNCHANGED <<vpc, mem0, v1, v2, v3, len, mainVars, structVars>>

\* The loop condition fails: the function returns.
VecReturn ==
    /\ vpc = "loop"
    /\ ~LoopCond(i, len)
    /\ vpc' = "returned"
    /\ UNCHANGED <<mem, mem0, v1, v2, v3, len, i, writes, mainVars, structVars>>

VecNext == VecLoopBody \/ VecReturn

VecSpec == VecInit /\ [][VecNext]_vars

-----------------------------------------------------------------------------
(* StructSpec: one call sum_structs(&s1, &s2) *)

StructInit ==
    /\ s1 \in Structs /\ s2 \in Structs
    /\ s1in = s1 /\ s2in = s2
    /\ out = Uninit
    /\ spc = "x"
    /\ MainIdle /\ VecIdle

\* out.x = s1->x + s2->x, the sum fitting an int or the overflow wrapping.
StructAddX ==
    /\ spc = "x"
    /\ out' = [out EXCEPT !.x = sum_structs_x(s1, s2)]
    /\ spc' = "y"
    /\ UNCHANGED <<s1, s2, s1in, s2in, mainVars, vecVars>>

\* out.x = s1->x + s2->x overflowing int is undefined: besides wrapping, a
\* build that traps on signed overflow aborts the call here.
StructAddXTrap ==
    /\ spc = "x"
    /\ AddOverflows(s1.x, s2.x)
    /\ spc' = "trapped"
    /\ UNCHANGED <<s1, s2, s1in, s2in, out, mainVars, vecVars>>

\* out.y = s1->y + s2->y
StructAddY ==
    /\ spc = "y"
    /\ out' = [out EXCEPT !.y = sum_structs_y(s1, s2)]
    /\ spc' = "z"
    /\ UNCHANGED <<s1, s2, s1in, s2in, mainVars, vecVars>>

\* out.z = s1->z + s2->z
StructAddZ ==
    /\ spc = "z"
    /\ out' = [out EXCEPT !.z = sum_structs_z(s1, s2)]
    /\ spc' = "return"
    /\ UNCHANGED <<s1, s2, s1in, s2in, mainVars, vecVars>>

\* return out
StructReturn ==
    /\ spc = "return"
    /\ spc' = "returned"
    /\ UNCHANGED <<s1, s2, s1in, s2in, out, mainVars, vecVars>>

StructNext ==
    StructAddX \/ StructAddXTrap \/ StructAddY \/ StructAddZ \/ StructReturn

StructSpec == StructInit /\ [][StructNext]_vars

-----------------------------------------------------------------------------
(* main: the command line and the environment *)

Modes == {"scalar", "vector", "struct"}

\* The arguments of --mode the model tries: the three modes and another string.
ModeArgs == Modes \cup {"bogus"}

\* The options getopt_long can return: its character and optarg.  "?" is what
\* it returns for an option that is not in long_options.
Options ==
    [opt : {"m"}, arg : ModeArgs]
    \cup [opt : {"u", "h", "?"}, arg : {""}]
    \cup {[opt |-> "a", arg |-> "1.2"], [opt |-> "a", arg |-> "abc"],
          [opt |-> "b", arg |-> "3.4"], [opt |-> "c", arg |-> "5.6"]}

RECURSIVE SeqsUpTo(_)
\* The command lines of at most n options.
SeqsUpTo(n) ==
    IF n = 0 THEN {<<>>}
    ELSE LET shorter == SeqsUpTo(n - 1)
         IN  shorter \cup {Append(s, o) : s \in {q \in shorter : Len(q) = n - 1}, o \in Options}

\* strtof(optarg, NULL): the float a decimal string converts to, 0 for a string
\* that starts with no number.
strtof(s) ==
    CASE s = "1.2" -> ParseF32(12, 10)
      [] s = "3.4" -> ParseF32(34, 10)
      [] s = "5.6" -> ParseF32(56, 10)
      [] OTHER -> 0

DYLIB == "./libbinary_playground.dylib"
SO == "./libbinary_playground.so"
Libs == {DYLIB, SO}

Symbols == {"sum_scalars", "sum_vectors", "sum_structs"}

UsageLine ==
    "Usage: ./binary_playground [--mode scalar|vector|struct] [--use-lib] [--a <float> --b <float> --c <float>]"

UnknownModeLine(m) == "Unknown mode '" \o m \o "'"

\* The text after the colon is dlerror()'s.
LoadFailedLine == "Failed to open dynamic library: " \o SO \o ": cannot open shared object file"

ScalarLine(x, y, z, r) ==
    "sum_scalars(" \o FormatF(x) \o ", " \o FormatF(y) \o ", " \o FormatF(z)
        \o ") = " \o FormatF(r)

\* The example vectors of vector mode: len, and v1, v2, v3 laid out in one memory.
ExampleLen == 3
ExampleV1 == 0
ExampleV2 == ExampleLen
ExampleV3 == 2 * ExampleLen
ExampleMem ==
    <<ParseF32(1, 1), ParseF32(2, 1), ParseF32(3, 1),
      ParseF32(5, 10), ParseF32(5, 10), ParseF32(5, 10),
      ParseF32(1, 10), ParseF32(2, 10), ParseF32(3, 10)>>

\* ExampleMem is indexed from 1, a memory from 0.
ExampleMem0 == [k \in 0 .. (3 * ExampleLen - 1) |-> ExampleMem[k + 1]]

RECURSIVE VectorItems(_, _, _, _)
\* The loop printing v1[k], ..., v1[n-1] separated by ", ".
VectorItems(m, p, k, n) ==
    IF k < n
    THEN FormatF(m[p + k]) \o (IF k + 1 < n THEN ", " ELSE "") \o VectorItems(m, p, k + 1, n)
    ELSE ""

VectorLine(m, p, n) == "sum_vectors result: [" \o VectorItems(m, p, 0, n) \o "]"

\* The example structs of struct mode (3.25 is 13/4 and 0.75 is 3/4).
ExampleS1 == [x |-> 1, y |-> ParseF32(25, 10), z |-> ParseF64(13, 4)]
ExampleS2 == [x |-> 4, y |-> ParseF32(15, 10), z |-> ParseF64(3, 4)]

StructLine(r) ==
    "sum_structs: x=" \o FormatD(r.x) \o ", y=" \o FormatF(r.y) \o ", z=" \o FormatF(r.z)

-----------------------------------------------------------------------------
(* Spec: one invocation of main *)

Init ==
    /\ pc = "getopt"
    /\ argv \in SeqsUpTo(MaxArgs)
    /\ optind = 1
    /\ mode = "scalar"
    /\ use_lib = FALSE
    /\ a = ParseF32(1, 1) /\ b = ParseF32(2, 1) /\ c = ParseF32(3, 1)
    /\ loadable \in SUBSET Libs
    /\ handle = "NULL"
    /\ lib_sum_scalars = "NULL" /\ lib_sum_vectors = "NULL" /\ lib_sum_structs = "NULL"
    /\ exported = {}
    /\ dlopenLog = <<>>
    /\ held = {}
    /\ closes = [l \in Libs |-> 0]
    /\ calls = <<>>
    /\ stdout = <<>> /\ stderr = <<>>
    /\ exitCode = -1
    /\ VecIdle /\ StructIdle

\* What no statement of the option loop touches.
loadVars == <<loadable, handle, lib_sum_scalars, lib_sum_vectors, lib_sum_structs,
              exported, dlopenLog, held, closes, calls>>

\* getopt_long returned the option at optind.
Got(o) ==
    /\ pc = "getopt"
    /\ optind <= Len(argv)
    /\ argv[optind].opt = o
    /\ optind' = optind + 1

\* case 'm': mode = optarg; break;
OptMode ==
    /\ Got("m")
    /\ mode' = argv[optind].arg
    /\ UNCHANGED <<pc, argv, use_lib, a, b, c, loadVars, stdout, stderr, exitCode,
                   vecVars, structVars>>

\* case 'u': use_lib = 1; break;
OptUseLib ==
    /\ Got("u")
    /\ use_lib' = TRUE
    /\ UNCHANGED <<pc, argv, mode, a, b, c, loadVars, stdout, stderr, exitCode,
                   vecVars, structVars>>

\* case 'a': a = strtof(optarg, NULL); break;
OptA ==
    /\ Got("a")
    /\ a' = strtof(argv[optind].arg)
    /\ UNCHANGED <<pc, argv, mode, use_lib, b, c, loadVars, stdout, stderr, exitCode,
                   vecVars, structVars>>

\* case 'b': b = strtof(optarg, NULL); break;
OptB ==
    /\ Got("b")
    /\ b' = strtof(argv[optind].arg)
    /\ UNCHANGED <<pc, argv, mode, use_lib, a, c, loadVars, stdout, stderr, exitCode,
                   vecVars, structVars>>

\* case 'c': c = strtof(optarg, NULL); break;
OptC ==
    /\ Got("c")
    /\ c' = strtof(argv[optind].arg)
    /\ UNCHANGED <<pc, argv, mode, use_lib, a, b, loadVars, stdout, stderr, exitCode,
                   vecVars, structVars>>

\* OptHelp with `break` in place of `return 0`.
OptHelpBreak ==
    /\ Got("h")
    /\ stdout' = Append(stdout, UsageLine)
    /\ UNCHANGED <<pc, exitCode, argv, mode, use_lib, a, b, c, loadVars, stderr,
                   vecVars, structVars>>

\* case 'h': print_usage(argv[0]); return 0;
OptHelp ==
    /\ Got("h")
    /\ stdout' = Append(stdout, UsageLine)
    /\ pc' = "exit"
    /\ exitCode' = 0
    /\ UNCHANGED <<argv, mode, use_lib, a, b, c, loadVars, stderr, vecVars, structVars>>

\* default: print_usage(argv[0]); return 1;
OptUnknown ==
    /\ Got("?")
    /\ stdout' = Append(stdout, UsageLine)
    /\ pc' = "exit"
    /\ exitCode' = 1
    /\ UNCHANGED <<argv, mode, use_lib, a, b, c, loadVars, stderr, vecVars, structVars>>

\* getopt_long returns -1: the loop ends, and handle and the three function
\* pointers are declared NULL.
GetoptEnd ==
    /\ pc = "getopt"
    /\ optind > Len(argv)
    /\ handle' = "NULL"
    /\ lib_sum_scalars' = "NULL" /\ lib_sum_vectors' = "NULL" /\ lib_sum_structs' = "NULL"
    /\ pc' = "load"
    /\ UNCHANGED <<argv, optind, mode, use_lib, a, b, c, loadable, exported, dlopenLog,
                   held, closes, calls, stdout, stderr, exitCode, vecVars, structVars>>

\* What no statement of the load phase touches.
cfgVars == <<argv, optind, mode, use_lib, a, b, c, loadable>>

\* if (use_lib) is false.
NoLib ==
    /\ pc = "load"
    /\ ~use_lib
    /\ pc' = "dispatch"
    /\ UNCHANGED <<cfgVars, handle, lib_sum_scalars, lib_sum_vectors, lib_sum_structs,
                   exported, dlopenLog, held, closes, calls, stdout, stderr, exitCode,
                   vecVars, structVars>>

\* dlopen(libname, RTLD_LAZY): the handle, or NULL when the file cannot be opened.
dlopen(libname) == IF libname \in loadable THEN libname ELSE "NULL"

\* handle = dlopen(libname), recorded.
Open(libname) ==
    /\ handle' = dlopen(libname)
    /\ dlopenLog' = Append(dlopenLog, libname)
    /\ held' = IF dlopen(libname) = "NULL" THEN held ELSE held \cup {libname}

\* handle = dlopen("./libbinary_playground.dylib", RTLD_LAZY);
DlopenDylib ==
    /\ pc = "load"
    /\ use_lib
    /\ Open(DYLIB)
    /\ pc' = "retry"
    /\ UNCHANGED <<cfgVars, lib_sum_scalars, lib_sum_vectors, lib_sum_structs, exported,
                   closes, calls, stdout, stderr, exitCode, vecVars, structVars>>

\* RetryCond without the test: the second dlopen is always made.
RetryAlways(h) == TRUE

\* The condition of the first `if (!handle)`.
RetryCond(h) == h = "NULL"

\* if (!handle) handle = dlopen("./libbinary_playground.so", RTLD_LAZY);
DlopenSo ==
    /\ pc = "retry"
    /\ RetryCond(handle)
    /\ Open(SO)
    /\ pc' = "check"
    /\ UNCHANGED <<cfgVars, lib_sum_scalars, lib_sum_vectors, lib_sum_structs, exported,
                   closes, calls, stdout, stderr, exitCode, vecVars, structVars>>

\* The first dlopen succeeded: the second is skipped.
SkipRetry ==
    /\ pc = "retry"
    /\ ~RetryCond(handle)
    /\ pc' = "check"
    /\ UNCHANGED <<cfgVars, handle, lib_sum_scalars, lib_sum_vectors, lib_sum_structs,
                   exported, dlopenLog, held, closes, calls, stdout, stderr, exitCode,
                   vecVars, structVars>>

\* LoadFailed without its `return 1`: the failure is reported and main goes on.
LoadFailedNoReturn ==
    /\ pc = "check"
    /\ handle = "NULL"
    /\ stderr' = Append(stderr, LoadFailedLine)
    /\ pc' = "dispatch"
    /\ UNCHANGED <<cfgVars, handle, lib_sum_scalars, lib_sum_vectors, lib_sum_structs,
                   exported, dlopenLog, held, closes, calls, stdout, exitCode,
                   vecVars, structVars>>

\* if (!handle) { fprintf(stderr, "Failed to open dynamic library: ..."); return 1; }
LoadFailed ==
    /\ pc = "check"
    /\ handle = "NULL"
    /\ stderr' = Append(stderr, LoadFailedLine)
    /\ pc' = "exit"
    /\ exitCode' = 1
    /\ UNCHANGED <<cfgVars, handle, lib_sum_scalars, lib_sum_vectors, lib_sum_structs,
                   exported, dlopenLog, held, closes, calls, stdout, vecVars, structVars>>

\* dlsym(handle, name): the symbol's address, or NULL when the library does not
\* export it; `found` is the environment's answer.
dlsym(name, found) == IF found THEN name ELSE "NULL"

\* The three dlsym calls, each resolved or not on its own.
Dlsym ==
    /\ pc = "check"
    /\ handle # "NULL"
    /\ \E syms \in SUBSET Symbols :
         /\ exported' = syms
         /\ lib_sum_scalars' = dlsym("sum_scalars", "sum_scalars" \in syms)
         /\ lib_sum_vectors' = dlsym("sum_vectors", "sum_vectors" \in syms)
         /\ lib_sum_structs' = dlsym("sum_structs", "sum_structs" \in syms)
    /\ pc' = "dispatch"
    /\ UNCHANGED <<cfgVars, handle, dlopenLog, held, closes, calls, stdout, stderr,
                   exitCode, vecVars, structVars>>

\* What no statement of the dispatch touches.
libVars == <<handle, lib_sum_scalars, lib_sum_vectors, lib_sum_structs, exported,
             dlopenLog>>

\* ScalarUsesLib testing another function's pointer.
ScalarUsesLibWrongPointer == use_lib /\ lib_sum_vectors # "NULL"

\* The conditions choosing the library's function over the built-in one.
ScalarUsesLib == use_lib /\ lib_sum_scalars # "NULL"
VectorUsesLib == use_lib /\ lib_sum_vectors # "NULL"
StructUsesLib == use_lib /\ lib_sum_structs # "NULL"

\* What the library's functions may return: what the built-in ones return, or
\* something else (here: zero, the vector untouched, the zero struct).
LibScalarResults == {sum_scalars(a, b, c), 0}
LibVectorResults ==
    {sum_vectors(ExampleMem0, ExampleV1, ExampleV2, ExampleV3, ExampleLen), ExampleMem0}
LibStructResults == {sum_structs(ExampleS1, ExampleS2), [x |-> 0, y |-> 0, z |-> 0]}

\* mode is "scalar", the library's sum_scalars is called.
ScalarLib ==
    /\ pc = "dispatch"
    /\ mode = "scalar"
    /\ ScalarUsesLib
    /\ \E r \in LibScalarResults : stdout' = Append(stdout, ScalarLine(a, b, c, r))
    /\ calls' = Append(calls, <<"sum_scalars", "lib">>)
    /\ pc' = "close"
    /\ UNCHANGED <<cfgVars, libVars, held, closes, stderr, exitCode, vecVars, structVars>>

\* mode is "scalar", the built-in sum_scalars is called.
ScalarBuiltin ==
    /\ pc = "dispatch"
    /\ mode = "scalar"
    /\ ~ScalarUsesLib
    /\ stdout' = Append(stdout, ScalarLine(a, b, c, sum_scalars(a, b, c)))
    /\ calls' = Append(calls, <<"sum_scalars", "builtin">>)
    /\ pc' = "close"
    /\ UNCHANGED <<cfgVars, libVars, held, closes, stderr, exitCode, vecVars, structVars>>

\* mode is "vector", the library's sum_vectors is called on the example vectors.
VectorLib ==
    /\ pc = "dispatch"
    /\ mode = "vector"
    /\ VectorUsesLib
    /\ \E m \in LibVectorResults :
         stdout' = Append(stdout, VectorLine(m, ExampleV1, ExampleLen))
    /\ calls' = Append(calls, <<"sum_vectors", "lib">>)
    /\ pc' = "close"
    /\ UNCHANGED <<cfgVars, libVars, held, closes, stderr, exitCode, vecVars, structVars>>

\* mode is "vector", the built-in sum_vectors is called on the example vectors.
VectorBuiltin ==
    /\ pc = "dispatch"
    /\ mode = "vector"
    /\ ~VectorUsesLib
    /\ stdout' = Append(stdout,
           VectorLine(sum_vectors(ExampleMem0, ExampleV1, ExampleV2, ExampleV3, ExampleLen),
                      ExampleV1, ExampleLen))
    /\ calls' = Append(calls, <<"sum_vectors", "builtin">>)
    /\ pc' = "close"
    /\ UNCHANGED <<cfgVars, libVars, held, closes, stderr, exitCode, vecVars, structVars>>

\* mode is "struct", the library's sum_structs is called on the example structs.
StructLib ==
    /\ pc = "dispatch"
    /\ mode = "struct"
    /\ StructUsesLib
    /\ \E r \in LibStructResults : stdout' = Append(stdout, StructLine(r))
    /\ calls' = Append(calls, <<"sum_structs", "lib">>)
    /\ pc' = "close"
    /\ UNCHANGED <<cfgVars, libVars, held, closes, stderr, exitCode, vecVars, structVars>>

\* mode is "struct", the built-in sum_structs is called on the example structs.
StructBuiltin ==
    /\ pc = "dispatch"
    /\ mode = "struct"
    /\ ~StructUsesLib
    /\ stdout' = Append(stdout, StructLine(sum_structs(ExampleS1, ExampleS2)))
    /\ calls' = Append(calls, <<"sum_structs", "builtin">>)
    /\ pc' = "close"
    /\ UNCHANGED <<cfgVars, libVars, held, closes, stderr, exitCode, vecVars, structVars>>

\* if (handle) dlclose(handle);
Dlclose ==
    /\ held' = IF handle # "NULL" THEN held \ {handle} ELSE held
    /\ closes' = IF handle # "NULL" THEN [closes EXCEPT ![handle] = @ + 1] ELSE closes

\* UnknownMode without its `if (handle) dlclose(handle);`.
UnknownModeNoClose ==
    /\ pc = "dispatch"
    /\ mode \notin Modes
    /\ stderr' = Append(stderr, UnknownModeLine(mode))
    /\ stdout' = Append(stdout, UsageLine)
    /\ pc' = "exit"
    /\ exitCode' = 1
    /\ UNCHANGED <<cfgVars, libVars, held, closes, calls, vecVars, structVars>>

\* UnknownMode without its print_usage(argv[0]).
UnknownModeNoUsage ==
    /\ pc = "dispatch"
    /\ mode \notin Modes
    /\ stderr' = Append(stderr, UnknownModeLine(mode))
    /\ Dlclose
    /\ pc' = "exit"
    /\ exitCode' = 1
    /\ UNCHANGED <<cfgVars, libVars, calls, stdout, vecVars, structVars>>

\* else { fprintf(stderr, "Unknown mode ..."); print_usage(argv[0]);
\*        if (handle) dlclose(handle); return 1; }
UnknownMode ==
    /\ pc = "dispatch"
    /\ mode \notin Modes
    /\ stderr' = Append(stderr, UnknownModeLine(mode))
    /\ stdout' = Append(stdout, UsageLine)
    /\ Dlclose
    /\ pc' = "exit"
    /\ exitCode' = 1
    /\ UNCHANGED <<cfgVars, libVars, calls, vecVars, structVars>>

\* if (handle) dlclose(handle); return 0;
Finish ==
    /\ pc = "close"
    /\ Dlclose
    /\ pc' = "exit"
    /\ exitCode' = 0
    /\ UNCHANGED <<cfgVars, libVars, calls, stdout, stderr, vecVars, structVars>>

Next ==
    \/ OptMode \/ OptUseLib \/ OptA \/ OptB \/ OptC \/ OptHelp \/ OptUnknown
    \/ GetoptEnd
    \/ NoLib \/ DlopenDylib \/ DlopenSo \/ SkipRetry \/ LoadFailed \/ Dlsym
    \/ ScalarLib \/ ScalarBuiltin \/ VectorLib \/ VectorBuiltin
    \/ StructLib \/ StructBuiltin \/ UnknownMode \/ Finish

Spec == Init /\ [][Next]_vars

-----------------------------------------------------------------------------
(* The command line as the user wrote it, for stating the properties *)

HasOpt(o) == \E k \in DOMAIN argv : argv[k].opt = o

\* The options that end main inside the option loop.
Stops == {"h", "?"}

\* No --help and no unknown option: the option loop runs to its end.
NoStop == \A k \in DOMAIN argv : argv[k].opt \notin Stops

\* The first of --help and the unknown options is option o.
FirstStopIs(o) ==
    \E k \in DOMAIN argv :
        /\ argv[k].opt = o
        /\ \A j \in 1 .. (k - 1) : argv[j].opt \notin Stops

\* The mode the command line selects: the last --mode, "scalar" without one.
SelectedMode ==
    LET ms == {k \in DOMAIN argv : argv[k].opt = "m"}
    IN  IF ms = {} THEN "scalar"
        ELSE argv[CHOOSE k \in ms : \A j \in ms : j <= k].arg

\* The function each mode is about.
FunctionOf(m) ==
    CASE m = "scalar" -> "sum_scalars"
      [] m = "vector" -> "sum_vectors"
      [] m = "struct" -> "sum_structs"
      [] OTHER -> "none"

\* How often dlopen returned a handle of library l.
Opens(l) == Cardinality({k \in DOMAIN dlopenLog : dlopenLog[k] = l /\ l \in loadable})

InSeq(x, s) == \E k \in DOMAIN s : s[k] = x

-----------------------------------------------------------------------------
(* Properties of main *)

\* C1: a handle dlopen returned is released by dlclose exactly once before
\* main returns, on every path (a result printed, unknown mode, an error);
\* no handle is closed twice or without having been opened.
C1_HandleReleasedOnce ==
    /\ \A l \in Libs : closes[l] <= Opens(l) /\ closes[l] <= 1
    /\ pc = "exit" => (held = {} /\ \A l \in Libs : closes[l] = Opens(l))

\* C1's case: main has returned from the unknown-mode branch with a handle
\* it had acquired.
C1_Witness ==
    pc = "exit" /\ mode \notin Modes /\ \E l \in Libs : Opens(l) = 1 /\ closes[l] = 1

\* C2: with --use-lib and neither library file loadable, main tries both
\* files, reports the failure on stderr and returns 1; no arithmetic function
\* is called and nothing is printed on stdout, whatever the mode.
C2_LoadFailureIsFatal ==
    (NoStop /\ HasOpt("u") /\ loadable = {}) =>
        /\ calls = <<>>
        /\ stdout = <<>>
        /\ pc = "exit" =>
             /\ exitCode = 1
             /\ stderr = <<LoadFailedLine>>
             /\ dlopenLog = <<DYLIB, SO>>

\* C2's case: main has returned after both opens failed, in a mode other
\* than the default.
C2_Witness ==
    /\ pc = "exit" /\ HasOpt("u") /\ loadable = {} /\ dlopenLog = <<DYLIB, SO>>
    /\ mode = "vector"

\* C3: the implementation called is the one of the mode's function, and it is
\* the library's exactly when --use-lib was given, a library loaded and that
\* function's symbol resolved, whatever the other two symbols did; with a
\* library loaded and a known mode main returns 0 whatever resolved.
C3_PerSymbolFallback ==
    /\ Len(calls) <= 1
    /\ \A k \in DOMAIN calls :
         /\ calls[k][1] = FunctionOf(SelectedMode)
         /\ calls[k][2] \in {"lib", "builtin"}
         /\ calls[k][2] = "lib" <=>
                (HasOpt("u") /\ loadable # {} /\ calls[k][1] \in exported)
    /\ (pc = "exit" /\ NoStop /\ SelectedMode \in Modes /\ (HasOpt("u") => loadable # {}))
          => (exitCode = 0 /\ Len(calls) = 1)

\* C3's case: a library is loaded that exports sum_vectors but not
\* sum_scalars, and scalar mode has called the built-in sum_scalars.
C3_Witness ==
    /\ pc = "exit" /\ use_lib /\ handle # "NULL"
    /\ exported = {"sum_vectors"}
    /\ calls = << <<"sum_scalars", "builtin">> >>

\* C4 as stated: in every invocation whose mode is not scalar, vector or
\* struct, with or without --use-lib, main prints the unknown-mode error and
\* the usage, calls no arithmetic function and returns 1.  (Stated for the
\* command lines without --help and unknown options, which end main before
\* the mode matters.)
C4_Original ==
    (pc = "exit" /\ SelectedMode \notin Modes /\ NoStop) =>
        /\ InSeq(UnknownModeLine(SelectedMode), stderr)
        /\ InSeq(UsageLine, stdout)
        /\ calls = <<>>
        /\ exitCode = 1

\* C4 amended: when the dispatch is reached with such a mode (no --help or
\* unknown option on the command line and, with --use-lib, a library that
\* loads), main prints the unknown-mode error and the usage and returns 1;
\* in every invocation with such a mode no arithmetic function is called.
C4_UnknownModeAtDispatch ==
    /\ SelectedMode \notin Modes => calls = <<>>
    /\ (pc = "exit" /\ SelectedMode \notin Modes /\ NoStop
            /\ (HasOpt("u") => loadable # {})) =>
          /\ stderr = <<UnknownModeLine(SelectedMode)>>
          /\ stdout = <<UsageLine>>
          /\ exitCode = 1

\* C4's case: main has returned from the unknown-mode branch, with --use-lib
\* and a library loaded.
C4_Witness ==
    /\ pc = "exit" /\ SelectedMode \notin Modes /\ NoStop
    /\ HasOpt("u") /\ loadable # {}
    /\ stderr = <<UnknownModeLine("bogus")>>

\* C5 as stated: a command line that includes --help ends with the usage and
\* 0, one that includes an unknown option with the usage and 1, in every
\* order of the options; no library is loaded, no arithmetic function called.
C5_Original ==
    pc = "exit" =>
        /\ HasOpt("h") =>
             (exitCode = 0 /\ InSeq(UsageLine, stdout) /\ dlopenLog = <<>> /\ calls = <<>>)
        /\ HasOpt("?") =>
             (exitCode = 1 /\ InSeq(UsageLine, stdout) /\ dlopenLog = <<>> /\ calls = <<>>)

\* C5 amended: the first --help or unknown option of the command line
\* decides: main prints the usage and returns 0 when it is --help and 1 when
\* it is an unknown option, whatever the options around it; in both cases no
\* library is loaded and no arithmetic function is called.
C5_FirstStopDecides ==
    /\ ~NoStop => (dlopenLog = <<>> /\ calls = <<>> /\ held = {})
    /\ (pc = "exit" /\ FirstStopIs("h")) =>
          (exitCode = 0 /\ stdout = <<UsageLine>> /\ stderr = <<>>)
    /\ (pc = "exit" /\ FirstStopIs("?")) =>
          (exitCode = 1 /\ stdout = <<UsageLine>> /\ stderr = <<>>)

\* C5's case: main has returned at a --help that follows --use-lib and
\* precedes an unknown option.
C5_Witness ==
    /\ pc = "exit" /\ FirstStopIs("h") /\ HasOpt("?") /\ exitCode = 0
    /\ argv[1].opt \notin Stops

\* C7 as stated: vector mode with the built-in sum_vectors prints
\* [1.600000, 2.700000, 3.400000].
C7_Original ==
    (pc = "exit" /\ calls = << <<"sum_vectors", "builtin">> >>) =>
        stdout = <<"sum_vectors result: [1.600000, 2.700000, 3.400000]">>

\* C7 amended: vector mode with the built-in sum_vectors applies it to
\* [1,2,3], [0.5,0.5,0.5], [0.1,0.2,0.3] and prints the elementwise sum,
\* which is [1.600000, 2.700000, 3.800000].
C7_VectorModeOutput ==
    (pc \in {"close", "exit"} /\ calls = << <<"sum_vectors", "builtin">> >>) =>
        stdout = <<"sum_vectors result: [1.600000, 2.700000, 3.800000]">>

\* C7's case: main has returned from vector mode having called the built-in
\* sum_vectors.
C7_Witness ==
    pc = "exit" /\ mode = "vector" /\ calls = << <<"sum_vectors", "builtin">> >>

\* C10: dlopen is called on the .dylib name first and on the .so name only
\* after the first open failed, and only with --use-lib; the load succeeds
\* exactly when one of the two files is loadable; at most one handle is held
\* at any time; with both files loadable the handle is the .dylib's.
C10_LoadOrder ==
    /\ Len(dlopenLog) <= 2
    /\ Len(dlopenLog) >= 1 => (dlopenLog[1] = DYLIB /\ HasOpt("u"))
    /\ Len(dlopenLog) = 2 => (dlopenLog[2] = SO /\ DYLIB \notin loadable)
    /\ Cardinality(held) <= 1
    /\ pc \in {"check", "dispatch", "close"} /\ use_lib =>
          /\ handle # "NULL" <=> loadable # {}
          /\ DYLIB \in loadable => handle = DYLIB
          /\ handle # "NULL" => held = {handle}
    /\ (pc = "exit" /\ NoStop /\ HasOpt("u")) =>
          (InSeq(LoadFailedLine, stderr) <=> loadable = {})

\* C10's case: both files are loadable and the load phase is over.
C10_Witness ==
    pc = "dispatch" /\ use_lib /\ loadable = Libs /\ handle = DYLIB

-----------------------------------------------------------------------------
(* Properties of sum_vectors *)

\* The elementwise sum of the three vectors as they were at the call.
ElementwiseSum(k) == AddF32(AddF32(mem0[v1 + k], mem0[v2 + k]), mem0[v3 + k])

\* Vector p does not start in the len cells before v1: no element p[k] is a
\* cell v1[j] with j < k.  It holds of a vector apart from v1 and of v1 itself.
NotBehind(p) == p >= v1 \/ p + len <= v1

\* The cells v1[0 .. len-1].
Target == {v1 + k : k \in 0 .. (len - 1)}

\* C6: for vectors of len elements each, after sum_vectors every v1[k] with
\* k < len holds the sum of the three inputs' k-th elements, each of these
\* cells was written exactly once, and for len = 0 nothing is changed.
C6_ElementwiseSum ==
    (vpc = "returned" /\ NotBehind(v2) /\ NotBehind(v3)) =>
        /\ \A k \in 0 .. (len - 1) :
             mem[v1 + k] = ElementwiseSum(k) /\ writes[v1 + k] = 1
        /\ len = 0 => (mem = mem0 /\ \A k \in Cells : writes[k] = 0)

\* C6's case: a call on three separate vectors of two elements has returned,
\* having changed v1.
C6_Witness ==
    /\ vpc = "returned" /\ len = 2
    /\ v2 >= v1 + len /\ v3 >= v2 + len
    /\ mem[v1] # mem0[v1] /\ mem[v1 + 1] # mem0[v1 + 1]

\* C9 as stated: in every call, aliased or not, v2 and v3 hold after the call
\* what they held before it, and v1 is unchanged from index len on.
C9_Original ==
    vpc = "returned" =>
        /\ \A k \in 0 .. (len - 1) :
             mem[v2 + k] = mem0[v2 + k] /\ mem[v3 + k] = mem0[v3 + k]
        /\ \A k \in Cells : k >= v1 + len => mem[k] = mem0[k]

\* C9 amended: sum_vectors writes only to the cells v1[0 .. len-1]; every
\* other cell (v1 from index len on, and each element of v2 and v3 that is
\* not one of those cells) is never written and keeps its value.  An element
\* of v2 or v3 that is one of the cells v1[0 .. len-1] changes with it.
C9_WritesOnlyTarget ==
    /\ \A k \in Cells \ Target : mem[k] = mem0[k] /\ writes[k] = 0
    /\ \A k \in 0 .. (len - 1) :
         /\ (v2 + k) \notin Target => mem[v2 + k] = mem0[v2 + k]
         /\ (v3 + k) \notin Target => mem[v3 + k] = mem0[v3 + k]

\* C9's case: a call with v2 the same buffer as v1 has returned; v2's first
\* element has changed, and a cell outside v1[0 .. len-1] exists.
C9_Witness ==
    /\ vpc = "returned" /\ len >= 1 /\ v2 = v1
    /\ mem[v2] # mem0[v2]
    /\ Cells \ Target # {}

-----------------------------------------------------------------------------
(* Properties of sum_structs *)

=============================================================================
